---- MODULE Spec2Model ----
(***************************************************************************)
(* Cafeteria: Menu -> Submenu -> Dish.  A model of CafeteriaService        *)
(* (internal/services.py), the generic CRUDRepository (internal/bases.py)  *)
(* and the three tables with their foreign keys (internal/models.py).      *)
(***************************************************************************)
EXTENDS Integers, FiniteSets, Sequences, TLC

\* ------------------------------------------------------------------ bounds
\* The number of rows ever inserted, over the three tables.
MaxEntities == 4

\* Values a request may carry.  An optional argument (str | None) is a
\* sequence of length at most one: << >> is None.
NewTitles == {"a"}
NewDescriptions == {"x"}
NewPrices == {1}
\* The bodies of a correct request: every field absent, every field empty or
\* zero, every field given.
Body(t, ds, p) == [title |-> t, description |-> ds, price |-> p]

Corrections ==
    {Body(<< >>, << >>, << >>), Body(<<"">>, <<"">>, <<0>>),
     Body(<<"b">>, <<"y">>, <<2>>)}

\* Menus and submenus have no price: the bodies without it.
TextCorrections == {Body(c.title, c.description, << >>) : c \in Corrections}

\* ------------------------------------------------------------------ state
VARIABLES
    db,     \* the committed store: the three tables
    seq,    \* identifiers given to committed rows so far, per table
    pre,    \* the committed store as it was when the last call started
    last,   \* the service call being answered: operation, arguments, outcome
    procs   \* the requests in progress when requests run concurrently

vars == <<db, seq, pre, last, procs>>

\* Identifiers are generated by the store (gen_random_uuid): the model numbers
\* them per table, 1, 2, ... in the order of generation, never reusing one.
\* A request carries a generated identifier (of a stored or a deleted row) or
\* one that was never generated.
MenuIds == 1..(seq.menus + 1)

SubmenuIds == 1..(seq.submenus + 1)

DishIds == 1..(seq.dishes + 1)

Generated == seq.menus + seq.submenus + seq.dishes

\* --------------------------------------------------------------- the store
EmptyTable == [i \in {} |-> 0]

EmptyStore == [menus |-> EmptyTable, submenus |-> EmptyTable, dishes |-> EmptyTable]

Ids(table) == DOMAIN table

Restrict(table, keep) == [i \in keep |-> table[i]]

Put(table, id, row) == [i \in (DOMAIN table) \cup {id} |-> IF i = id THEN row ELSE table[i]]

\* Submenu rows of a menu, dish rows of a submenu.
SubmenusOf(d, m) == {s \in Ids(d.submenus) : d.submenus[s].menu_id = m}

DishesOf(d, s) == {x \in Ids(d.dishes) : d.dishes[x].submenu_id = s}

\* ForeignKey("menus.id"), ForeignKey("submenus.id"): the parent row exists.
ForeignKeysHold(d) ==
    /\ \A s \in Ids(d.submenus) : d.submenus[s].menu_id \in Ids(d.menus)
    /\ \A x \in Ids(d.dishes) : d.dishes[x].submenu_id \in Ids(d.submenus)

\* ondelete="CASCADE" on dishes.submenu_id.
DeleteSubmenuRow(d, s) ==
    [d EXCEPT !.submenus = Restrict(@, Ids(@) \ {s}),
              !.dishes = Restrict(@, {x \in Ids(@) : @[x].submenu_id # s})]

\* The variant without ON DELETE CASCADE: only the menu row goes.
DeleteMenuRowOnly(d, m) == [d EXCEPT !.menus = Restrict(@, Ids(@) \ {m})]

\* ondelete="CASCADE" on submenus.menu_id, and from there on the dishes.
DeleteMenuRow(d, m) ==
    LET gone == SubmenusOf(d, m) IN
    [d EXCEPT !.menus = Restrict(@, Ids(@) \ {m}),
              !.submenus = Restrict(@, Ids(@) \ gone),
              !.dishes = Restrict(@, {x \in Ids(@) : @[x].submenu_id \notin gone})]

DeleteDishRow(d, x) == [d EXCEPT !.dishes = Restrict(@, Ids(@) \ {x})]

\* ------------------------------------------------------- loaded entities
\* An entity loaded by a session.  A session's identity map gives one object
\* per primary key, so an object is identified by (session, id); the classes
\* define no __eq__, so two loads by different sessions are different
\* objects whatever their fields.
LoadDish(d, x, sess) ==
    [id |-> x, sess |-> sess, title |-> d.dishes[x].title,
     description |-> d.dishes[x].description, price |-> d.dishes[x].price,
     submenu_id |-> d.dishes[x].submenu_id]

\* Submenu.dishes: lazy="selectin", loaded with the submenu.
LoadSubmenu(d, s, sess) ==
    [id |-> s, sess |-> sess, title |-> d.submenus[s].title,
     description |-> d.submenus[s].description, menu_id |-> d.submenus[s].menu_id,
     dishes |-> {LoadDish(d, x, sess) : x \in DishesOf(d, s)}]

\* Menu.submenus: lazy="selectin", loaded with the menu.
LoadMenu(d, m, sess) ==
    [id |-> m, sess |-> sess, title |-> d.menus[m].title,
     description |-> d.menus[m].description,
     submenus |-> {LoadSubmenu(d, s, sess) : s \in SubmenusOf(d, m)}]

\* CRUDRepository.find: one_or_none() of SELECT ... WHERE id = entity_id,
\* as a sequence of length at most one (<< >> is None).
FindMenu(d, m, sess) == IF m \in Ids(d.menus) THEN <<LoadMenu(d, m, sess)>> ELSE << >>

FindSubmenu(d, s, sess) == IF s \in Ids(d.submenus) THEN <<LoadSubmenu(d, s, sess)>> ELSE << >>

FindDish(d, x, sess) == IF x \in Ids(d.dishes) THEN <<LoadDish(d, x, sess)>> ELSE << >>

\* CRUDRepository.find_all: SELECT of the whole table.
FindAllMenus(d, sess) == {LoadMenu(d, m, sess) : m \in Ids(d.menus)}

FindAllSubmenus(d, sess) == {LoadSubmenu(d, s, sess) : s \in Ids(d.submenus)}

\* `submenu in menu.submenus`: list membership by object identity.
Contains(collection, obj) == \E o \in collection : o.id = obj.id /\ o.sess = obj.sess

\* The variant `corrected if corrected is not None else old`.
StrIfGiven(corrected, old) == IF corrected = << >> THEN old ELSE corrected[1]

\* `corrected or old` on str | None: None and "" are falsy.
StrOr(corrected, old) ==
    IF corrected = << >> \/ corrected[1] = "" THEN old ELSE corrected[1]

\* `corrected or old` on Decimal | None: None and Decimal(0) are falsy.
DecimalOr(corrected, old) ==
    IF corrected = << >> \/ corrected[1] = 0 THEN old ELSE corrected[1]

\* ---------------------------------------------------------------- results
NoError == "ok"
MenuNotFoundError == "MenuNotFoundError"
SubmenuNotFoundError == "SubmenuNotFoundError"
SubmenuNotIncludedInMenuError == "SubmenuNotIncludedInMenuError"
DishNotFoundError == "DishNotFoundError"
StorageError == "StorageError"
IntegrityError == "IntegrityError"
StaleDataError == "StaleDataError"

DishMapping(dish) ==
    [id |-> dish.id, title |-> dish.title, description |-> dish.description,
     price |-> dish.price]

\* sum(len(submenu.dishes) for submenu in submenus)
RECURSIVE SumOfDishes(_)
SumOfDishes(submenus) ==
    IF submenus = {} THEN 0
    ELSE LET submenu == CHOOSE o \in submenus : TRUE
         IN Cardinality(submenu.dishes) + SumOfDishes(submenus \ {submenu})

MenuMapping(menu) ==
    [id |-> menu.id, title |-> menu.title, description |-> menu.description,
     dishes_count |-> SumOfDishes(menu.submenus),
     submenus_count |-> Cardinality(menu.submenus)]

SubmenuMapping(submenu) ==
    [id |-> submenu.id, title |-> submenu.title, description |-> submenu.description,
     dishes_count |-> Cardinality(submenu.dishes)]

\* What a handler leaves behind: the exception raised (or none), the value
\* returned (a set of mappings: one for a single result), the store its
\* session wrote to, and the identifiers it drew.
Raise(error, d, q) == [err |-> error, kind |-> "raise", ret |-> {}, db |-> d, seq |-> q]

Return(mapping, d, q) == [err |-> NoError, kind |-> "mapping", ret |-> {mapping}, db |-> d, seq |-> q]

ReturnList(mappings, d, q) == [err |-> NoError, kind |-> "list", ret |-> mappings, db |-> d, seq |-> q]

\* The variant that commits whatever the block did.
TransactionAlwaysCommits(committed, out) == out.db

\* `async with session, session.begin()`: commit when the block returns,
\* roll back when it raises.
Transaction(committed, out) == IF out.err = NoError THEN out.db ELSE committed

\* CRUDRepository.save of a new entity: INSERT on flush, the identifier
\* generated by the store, then refresh.
InsertMenu(d, id, t, ds) == [d EXCEPT !.menus = Put(@, id, [title |-> t, description |-> ds])]

InsertSubmenu(d, id, t, ds, m) ==
    [d EXCEPT !.submenus = Put(@, id, [title |-> t, description |-> ds, menu_id |-> m])]

InsertDish(d, id, t, ds, p, s) ==
    [d EXCEPT !.dishes = Put(@, id, [title |-> t, description |-> ds, price |-> p,
                                     submenu_id |-> s])]

\* The variant whose UPDATE has no WHERE clause.
UpdateEveryMenu(d, menu) ==
    [d EXCEPT !.menus = [m \in DOMAIN @ |-> [title |-> menu.title,
                                             description |-> menu.description]]]

\* CRUDRepository.save of a loaded entity: UPDATE of its columns on flush.
UpdateMenu(d, menu) ==
    [d EXCEPT !.menus[menu.id] = [title |-> menu.title, description |-> menu.description]]

UpdateSubmenu(d, submenu) ==
    [d EXCEPT !.submenus[submenu.id] = [title |-> submenu.title,
                                        description |-> submenu.description,
                                        menu_id |-> submenu.menu_id]]

UpdateDish(d, dish) ==
    [d EXCEPT !.dishes[dish.id] = [title |-> dish.title, description |-> dish.description,
                                   price |-> dish.price, submenu_id |-> dish.submenu_id]]

\* A storage failure after the flush (refresh, commit, a lost connection)
\* propagates out of the handler; otherwise the handler returns.
AfterFlush(fault, mapping, w, q) ==
    IF fault THEN Raise(StorageError, w, q) ELSE Return(mapping, w, q)

\* ----------------------------------------------------- dish operations
\* Each find without a session runs in a session of its own (_wrap_session).
GetDishInMenuSubmenu(d, q, menu_id, submenu_id, dish_id) ==
    LET menu == FindMenu(d, menu_id, "s1")
        submenu == FindSubmenu(d, submenu_id, "s2")
        dish == FindDish(d, dish_id, "s3")
    IN  IF menu = << >> THEN Raise(MenuNotFoundError, d, q)
        ELSE IF submenu = << >> THEN Raise(SubmenuNotFoundError, d, q)
        ELSE IF ~Contains(menu[1].submenus, submenu[1])
             THEN Raise(SubmenuNotIncludedInMenuError, d, q)
        ELSE IF dish = << >> THEN Raise(DishNotFoundError, d, q)
        ELSE Return(DishMapping(dish[1]), d, q)

\* The variant with the commented-out raise in place of `return []`.
GetDishesRaising(d, q, menu_id, submenu_id) ==
    LET menu == FindMenu(d, menu_id, "s1")
        submenu == FindSubmenu(d, submenu_id, "s2")
    IN  IF menu = << >> THEN Raise(MenuNotFoundError, d, q)
        ELSE IF submenu = << >> THEN Raise(SubmenuNotFoundError, d, q)
        ELSE IF ~Contains(menu[1].submenus, submenu[1])
             THEN Raise(SubmenuNotIncludedInMenuError, d, q)
        ELSE ReturnList({DishMapping(dish) : dish \in submenu[1].dishes}, d, q)

GetDishesInMenuSubmenu(d, q, menu_id, submenu_id) ==
    LET menu == FindMenu(d, menu_id, "s1")
        submenu == FindSubmenu(d, submenu_id, "s2")
    IN  IF menu = << >> THEN Raise(MenuNotFoundError, d, q)
        ELSE IF submenu = << >> THEN ReturnList({}, d, q)
        ELSE IF ~Contains(menu[1].submenus, submenu[1])
             THEN Raise(SubmenuNotIncludedInMenuError, d, q)
        ELSE ReturnList({DishMapping(dish) : dish \in submenu[1].dishes}, d, q)

AddDishToMenuSubmenu(d, q, menu_id, submenu_id, title, description, price, fault) ==
    LET menu == FindMenu(d, menu_id, "tx")
        submenu == FindSubmenu(d, submenu_id, "tx")
        id == q.dishes + 1
        w == InsertDish(d, id, title, description, price, submenu_id)
        dish == LoadDish(w, id, "tx")
    IN  IF menu = << >> THEN Raise(MenuNotFoundError, d, q)
        ELSE IF submenu = << >> THEN Raise(SubmenuNotFoundError, d, q)
        ELSE IF ~Contains(menu[1].submenus, submenu[1])
             THEN Raise(SubmenuNotIncludedInMenuError, d, q)
        ELSE AfterFlush(fault, DishMapping(dish), w, [q EXCEPT !.dishes = id])

\* The variant that also assigns the addressed submenu to the dish.
CorrectDishMovingDish(d, q, menu_id, submenu_id, dish_id, corrected_title, corrected_description, corrected_price, fault) ==
    LET menu == FindMenu(d, menu_id, "tx")
        submenu == FindSubmenu(d, submenu_id, "tx")
        dish == FindDish(d, dish_id, "tx")
        corrected == [dish[1] EXCEPT !.title = StrOr(corrected_title, @),
                                     !.description = StrOr(corrected_description, @),
                                     !.price = DecimalOr(corrected_price, @),
                                     !.submenu_id = submenu_id]
        w == UpdateDish(d, corrected)
    IN  IF menu = << >> THEN Raise(MenuNotFoundError, d, q)
        ELSE IF submenu = << >> THEN Raise(SubmenuNotFoundError, d, q)
        ELSE IF ~Contains(menu[1].submenus, submenu[1])
             THEN Raise(SubmenuNotIncludedInMenuError, d, q)
        ELSE IF dish = << >> THEN Raise(DishNotFoundError, d, q)
        ELSE AfterFlush(fault, DishMapping(LoadDish(w, dish_id, "tx")), w, q)

\* The variant that looks the dish up before the inclusion check.
CorrectDishBeforeInclusion(d, q, menu_id, submenu_id, dish_id, corrected_title, corrected_description, corrected_price, fault) ==
    LET menu == FindMenu(d, menu_id, "tx")
        submenu == FindSubmenu(d, submenu_id, "tx")
        dish == FindDish(d, dish_id, "tx")
        corrected == [dish[1] EXCEPT !.title = StrOr(corrected_title, @),
                                     !.description = StrOr(corrected_description, @),
                                     !.price = DecimalOr(corrected_price, @)]
        w == UpdateDish(d, corrected)
    IN  IF menu = << >> THEN Raise(MenuNotFoundError, d, q)
        ELSE IF submenu = << >> THEN Raise(SubmenuNotFoundError, d, q)
        ELSE IF dish = << >> THEN Raise(DishNotFoundError, d, q)
        ELSE IF ~Contains(menu[1].submenus, submenu[1])
             THEN Raise(SubmenuNotIncludedInMenuError, d, q)
        ELSE AfterFlush(fault, DishMapping(LoadDish(w, dish_id, "tx")), w, q)

CorrectDishInMenuSubmenu(d, q, menu_id, submenu_id, dish_id, corrected_title, corrected_description, corrected_price, fault) ==
    LET menu == FindMenu(d, menu_id, "tx")
        submenu == FindSubmenu(d, submenu_id, "tx")
        dish == FindDish(d, dish_id, "tx")
        corrected == [dish[1] EXCEPT !.title = StrOr(corrected_title, @),
                                     !.description = StrOr(corrected_description, @),
                                     !.price = DecimalOr(corrected_price, @)]
        w == UpdateDish(d, corrected)
    IN  IF menu = << >> THEN Raise(MenuNotFoundError, d, q)
        ELSE IF submenu = << >> THEN Raise(SubmenuNotFoundError, d, q)
        ELSE IF ~Contains(menu[1].submenus, submenu[1])
             THEN Raise(SubmenuNotIncludedInMenuError, d, q)
        ELSE IF dish = << >> THEN Raise(DishNotFoundError, d, q)
        ELSE AfterFlush(fault, DishMapping(LoadDish(w, dish_id, "tx")), w, q)

\* The variant that looks the dish up before the submenu.
RemoveDishDishFirst(d, q, menu_id, submenu_id, dish_id, fault) ==
    LET menu == FindMenu(d, menu_id, "tx")
        submenu == FindSubmenu(d, submenu_id, "tx")
        dish == FindDish(d, dish_id, "tx")
    IN  IF menu = << >> THEN Raise(MenuNotFoundError, d, q)
        ELSE IF dish = << >> THEN Raise(DishNotFoundError, d, q)
        ELSE IF submenu = << >> THEN Raise(SubmenuNotFoundError, d, q)
        ELSE IF ~Contains(menu[1].submenus, submenu[1])
             THEN Raise(SubmenuNotIncludedInMenuError, d, q)
        ELSE AfterFlush(fault, DishMapping(dish[1]), DeleteDishRow(d, dish_id), q)

RemoveDishFromMenuSubmenu(d, q, menu_id, submenu_id, dish_id, fault) ==
    LET menu == FindMenu(d, menu_id, "tx")
        submenu == FindSubmenu(d, submenu_id, "tx")
        dish == FindDish(d, dish_id, "tx")
    IN  IF menu = << >> THEN Raise(MenuNotFoundError, d, q)
        ELSE IF submenu = << >> THEN Raise(SubmenuNotFoundError, d, q)
        ELSE IF ~Contains(menu[1].submenus, submenu[1])
             THEN Raise(SubmenuNotIncludedInMenuError, d, q)
        ELSE IF dish = << >> THEN Raise(DishNotFoundError, d, q)
        ELSE AfterFlush(fault, DishMapping(dish[1]), DeleteDishRow(d, dish_id), q)

\* ----------------------------------------------------- menu operations
GetMenu(d, q, menu_id) ==
    LET menu == FindMenu(d, menu_id, "s1")
    IN  IF menu = << >> THEN Raise(MenuNotFoundError, d, q)
        ELSE Return(MenuMapping(menu[1]), d, q)

GetMenus(d, q) == ReturnList({MenuMapping(menu) : menu \in FindAllMenus(d, "s1")}, d, q)

\* The variant that gives a new menu the lowest identifier not in use.
CreateMenuReusingId(d, q, title, description, fault) ==
    LET id == CHOOSE i \in 1..(q.menus + 1) :
                  i \notin Ids(d.menus) /\ \A j \in 1..(i - 1) : j \in Ids(d.menus)
        w == InsertMenu(d, id, title, description)
        menu == LoadMenu(w, id, "tx")
    IN  AfterFlush(fault, MenuMapping(menu), w,
                   [q EXCEPT !.menus = IF id > @ THEN id ELSE @])

CreateMenu(d, q, title, description, fault) ==
    LET id == q.menus + 1
        w == InsertMenu(d, id, title, description)
        menu == LoadMenu(w, id, "tx")
    IN  AfterFlush(fault, MenuMapping(menu), w, [q EXCEPT !.menus = id])

CorrectMenu(d, q, menu_id, corrected_title, corrected_description, fault) ==
    LET menu == FindMenu(d, menu_id, "tx")
        corrected == [menu[1] EXCEPT !.title = StrOr(corrected_title, @),
                                     !.description = StrOr(corrected_description, @)]
        w == UpdateMenu(d, corrected)
    IN  IF menu = << >> THEN Raise(MenuNotFoundError, d, q)
        ELSE AfterFlush(fault, MenuMapping(LoadMenu(w, menu_id, "tx")), w, q)

\* The mapping is built from the object loaded before the delete.
DeleteMenu(d, q, menu_id, fault) ==
    LET menu == FindMenu(d, menu_id, "tx")
    IN  IF menu = << >> THEN Raise(MenuNotFoundError, d, q)
        ELSE AfterFlush(fault, MenuMapping(menu[1]), DeleteMenuRow(d, menu_id), q)

\* -------------------------------------------------- submenu operations
GetMenuSubmenu(d, q, menu_id, submenu_id) ==
    LET menu == FindMenu(d, menu_id, "s1")
        submenu == FindSubmenu(d, submenu_id, "s2")
    IN  IF menu = << >> THEN Raise(MenuNotFoundError, d, q)
        ELSE IF submenu = << >> THEN Raise(SubmenuNotFoundError, d, q)
        ELSE IF ~Contains(menu[1].submenus, submenu[1])
             THEN Raise(SubmenuNotIncludedInMenuError, d, q)
        ELSE Return(SubmenuMapping(submenu[1]), d, q)

\* find_all() of the submenu table: every submenu, whatever its menu.
GetMenuSubmenus(d, q, menu_id) ==
    LET menu == FindMenu(d, menu_id, "s1")
        submenus == FindAllSubmenus(d, "s2")
    IN  IF menu = << >> THEN Raise(MenuNotFoundError, d, q)
        ELSE ReturnList({SubmenuMapping(submenu) : submenu \in submenus}, d, q)

\* The returned "description" is menu.description.
CreateMenuSubmenu(d, q, menu_id, title, description, fault) ==
    LET menu == FindMenu(d, menu_id, "tx")
        id == q.submenus + 1
        w == InsertSubmenu(d, id, title, description, menu_id)
        submenu == LoadSubmenu(w, id, "tx")
    IN  IF menu = << >> THEN Raise(MenuNotFoundError, d, q)
        ELSE AfterFlush(fault,
                        [id |-> submenu.id, title |-> submenu.title,
                         description |-> menu[1].description,
                         dishes_count |-> Cardinality(submenu.dishes)],
                        w, [q EXCEPT !.submenus = id])

CorrectMenuSubmenu(d, q, menu_id, submenu_id, corrected_title, corrected_description, fault) ==
    LET menu == FindMenu(d, menu_id, "tx")
        submenu == FindSubmenu(d, submenu_id, "tx")
        corrected == [submenu[1] EXCEPT !.title = StrOr(corrected_title, @),
                                        !.description = StrOr(corrected_description, @)]
        w == UpdateSubmenu(d, corrected)
    IN  IF menu = << >> THEN Raise(MenuNotFoundError, d, q)
        ELSE IF submenu = << >> THEN Raise(SubmenuNotFoundError, d, q)
        ELSE IF ~Contains(menu[1].submenus, submenu[1])
             THEN Raise(SubmenuNotIncludedInMenuError, d, q)
        ELSE AfterFlush(fault, SubmenuMapping(LoadSubmenu(w, submenu_id, "tx")), w, q)

\* The variant that looks the submenu up before the menu.
DeleteMenuSubmenuSubmenuFirst(d, q, menu_id, submenu_id, fault) ==
    LET menu == FindMenu(d, menu_id, "tx")
        submenu == FindSubmenu(d, submenu_id, "tx")
    IN  IF submenu = << >> THEN Raise(SubmenuNotFoundError, d, q)
        ELSE IF menu = << >> THEN Raise(MenuNotFoundError, d, q)
        ELSE AfterFlush(fault, SubmenuMapping(submenu[1]), DeleteSubmenuRow(d, submenu_id), q)

\* No `submenu not in menu.submenus` check here.
DeleteMenuSubmenu(d, q, menu_id, submenu_id, fault) ==
    LET menu == FindMenu(d, menu_id, "tx")
        submenu == FindSubmenu(d, submenu_id, "tx")
    IN  IF menu = << >> THEN Raise(MenuNotFoundError, d, q)
        ELSE IF submenu = << >> THEN Raise(SubmenuNotFoundError, d, q)
        ELSE AfterFlush(fault, SubmenuMapping(submenu[1]), DeleteSubmenuRow(d, submenu_id), q)

\* ------------------------------------------------------------ the calls
NoId == 0

Call(op, menu_id, submenu_id, dish_id, body, out) ==
    [op |-> op, menu_id |-> menu_id, submenu_id |-> submenu_id, dish_id |-> dish_id,
     body |-> body, err |-> out.err, kind |-> out.kind, ret |-> out.ret]

NoBody == Body(<< >>, << >>, << >>)

\* No call in progress.
NoCall ==
    [op |-> "none", menu_id |-> NoId, submenu_id |-> NoId, dish_id |-> NoId,
     body |-> NoBody, err |-> NoError, kind |-> "none", ret |-> {}]

Idle == last = NoCall

\* The variant in which list Menus consumes the rows it returns.
ReadConsuming(call, out) ==
    /\ Idle
    /\ last' = call
    /\ pre' = db
    /\ db' = IF call.op = "get_menus" THEN EmptyStore ELSE db
    /\ UNCHANGED <<seq, procs>>

\* The variant in which every read request re-creates the tables first.
ReadRecreatingTables(call, out) ==
    /\ Idle
    /\ last' = call
    /\ pre' = db
    /\ db' = EmptyStore
    /\ UNCHANGED <<seq, procs>>

\* A read: no transaction, nothing written.
Read(call, out) ==
    /\ Idle
    /\ last' = call
    /\ pre' = db
    /\ UNCHANGED <<db, seq, procs>>

\* A create, correct or delete: one transaction around the whole handler.
\* An identifier drawn for a row that is rolled back is never seen.
Mutate(call, out) ==
    /\ Idle
    /\ last' = call
    /\ pre' = db
    /\ db' = Transaction(db, out)
    /\ seq' = IF out.err = NoError THEN out.seq ELSE seq
    /\ UNCHANGED procs

get_dish_in_menu_submenu ==
    \E m \in MenuIds, s \in SubmenuIds, x \in DishIds :
        LET out == GetDishInMenuSubmenu(db, seq, m, s, x)
        IN Read(Call("get_dish_in_menu_submenu", m, s, x, NoBody, out), out)

get_dishes_in_menu_submenu ==
    \E m \in MenuIds, s \in SubmenuIds :
        LET out == GetDishesInMenuSubmenu(db, seq, m, s)
        IN Read(Call("get_dishes_in_menu_submenu", m, s, NoId, NoBody, out), out)

add_dish_to_menu_submenu ==
    /\ Generated < MaxEntities
    /\ \E m \in MenuIds, s \in SubmenuIds, t \in NewTitles, ds \in NewDescriptions,
          p \in NewPrices, fault \in BOOLEAN :
        LET out == AddDishToMenuSubmenu(db, seq, m, s, t, ds, p, fault)
        IN Mutate(Call("add_dish_to_menu_submenu", m, s, NoId, Body(<<t>>, <<ds>>, <<p>>), out), out)

correct_dish_in_menu_submenu ==
    \E m \in MenuIds, s \in SubmenuIds, x \in DishIds, c \in Corrections, fault \in BOOLEAN :
        LET out == CorrectDishInMenuSubmenu(db, seq, m, s, x, c.title, c.description,
                                            c.price, fault)
        IN Mutate(Call("correct_dish_in_menu_submenu", m, s, x, c, out), out)

remove_dish_from_menu_submenu ==
    \E m \in MenuIds, s \in SubmenuIds, x \in DishIds, fault \in BOOLEAN :
        LET out == RemoveDishFromMenuSubmenu(db, seq, m, s, x, fault)
        IN Mutate(Call("remove_dish_from_menu_submenu", m, s, x, NoBody, out), out)

get_menu ==
    \E m \in MenuIds :
        LET out == GetMenu(db, seq, m)
        IN Read(Call("get_menu", m, NoId, NoId, NoBody, out), out)

get_menus ==
    LET out == GetMenus(db, seq)
    IN Read(Call("get_menus", NoId, NoId, NoId, NoBody, out), out)

create_menu ==
    /\ Generated < MaxEntities
    /\ \E t \in NewTitles, ds \in NewDescriptions, fault \in BOOLEAN :
        LET out == CreateMenu(db, seq, t, ds, fault)
        IN Mutate(Call("create_menu", NoId, NoId, NoId, Body(<<t>>, <<ds>>, << >>), out), out)

correct_menu ==
    \E m \in MenuIds, c \in TextCorrections, fault \in BOOLEAN :
        LET out == CorrectMenu(db, seq, m, c.title, c.description, fault)
        IN Mutate(Call("correct_menu", m, NoId, NoId, c, out), out)

delete_menu ==
    \E m \in MenuIds, fault \in BOOLEAN :
        LET out == DeleteMenu(db, seq, m, fault)
        IN Mutate(Call("delete_menu", m, NoId, NoId, NoBody, out), out)

get_menu_submenu ==
    \E m \in MenuIds, s \in SubmenuIds :
        LET out == GetMenuSubmenu(db, seq, m, s)
        IN Read(Call("get_menu_submenu", m, s, NoId, NoBody, out), out)

get_menu_submenus ==
    \E m \in MenuIds :
        LET out == GetMenuSubmenus(db, seq, m)
        IN Read(Call("get_menu_submenus", m, NoId, NoId, NoBody, out), out)

create_menu_submenu ==
    /\ Generated < MaxEntities
    /\ \E m \in MenuIds, t \in NewTitles, ds \in NewDescriptions, fault \in BOOLEAN :
        LET out == CreateMenuSubmenu(db, seq, m, t, ds, fault)
        IN Mutate(Call("create_menu_submenu", m, NoId, NoId, Body(<<t>>, <<ds>>, << >>), out), out)

correct_menu_submenu ==
    \E m \in MenuIds, s \in SubmenuIds, c \in TextCorrections, fault \in BOOLEAN :
        LET out == CorrectMenuSubmenu(db, seq, m, s, c.title, c.description, fault)
        IN Mutate(Call("correct_menu_submenu", m, s, NoId, c, out), out)

delete_menu_submenu ==
    \E m \in MenuIds, s \in SubmenuIds, fault \in BOOLEAN :
        LET out == DeleteMenuSubmenu(db, seq, m, s, fault)
        IN Mutate(Call("delete_menu_submenu", m, s, NoId, NoBody, out), out)

\* The route hands the result (or the error) to the client; the next request
\* of this client follows.
respond ==
    /\ ~Idle
    /\ last' = NoCall
    /\ pre' = db
    /\ UNCHANGED <<db, seq, procs>>

\* --------------------------------------------------------- specification

\* The requests that may run at the same time.
Procs == {"p1", "p2"}

NoWrite == [kind |-> "none"]

IdleProc ==
    [pc |-> "idle", n |-> 0, op |-> "none", menu_id |-> NoId, submenu_id |-> NoId,
     dish_id |-> NoId, body |-> NoBody, menu |-> << >>, submenu |-> << >>, dish |-> << >>,
     write |-> NoWrite, locks |-> {}, err |-> NoError, ret |-> {}]

\* create_tables() on an empty database: three empty tables.
Init ==
    /\ db = EmptyStore
    /\ seq = [menus |-> 0, submenus |-> 0, dishes |-> 0]
    /\ pre = EmptyStore
    /\ last = NoCall
    /\ procs = [p \in Procs |-> IdleProc]

Next ==
    \/ get_dish_in_menu_submenu
    \/ get_dishes_in_menu_submenu
    \/ add_dish_to_menu_submenu
    \/ correct_dish_in_menu_submenu
    \/ remove_dish_from_menu_submenu
    \/ get_menu
    \/ get_menus
    \/ create_menu
    \/ correct_menu
    \/ delete_menu
    \/ get_menu_submenu
    \/ get_menu_submenus
    \/ create_menu_submenu
    \/ correct_menu_submenu
    \/ delete_menu_submenu
    \/ respond

Spec == Init /\ [][Next]_vars

\* ================================================== concurrent requests
\* Requests are coroutines on one event loop: a handler runs until its next
\* await (a repository call, the commit) and another request may run there.
\* Each mutating handler has a session and a transaction of its own; the
\* store is PostgreSQL (settings.py: postgresql+asyncpg) at its default
\* isolation level, READ COMMITTED: a statement sees what is committed when
\* it runs, and a write waits for the row locks of other transactions.

\* Requests served in a run, over all the client slots.
MaxRequests == 2

\* The stores the concurrent requests start from: built by calls in sequence.
RECURSIVE Build(_)
Build(script) ==
    IF script = << >> THEN [db |-> EmptyStore, seq |-> [menus |-> 0, submenus |-> 0, dishes |-> 0]]
    ELSE LET before == Build(SubSeq(script, 1, Len(script) - 1))
             step == script[Len(script)]
         IN CASE step = "menu" -> CreateMenu(before.db, before.seq, "a", "x", FALSE)
              [] step = "submenu" -> CreateMenuSubmenu(before.db, before.seq, 1, "a", "x", FALSE)
              [] step = "dish" -> AddDishToMenuSubmenu(before.db, before.seq, 1, 1, "a", "x", 1, FALSE)

Seeds ==
    {Build(<< >>), Build(<<"menu">>), Build(<<"menu", "submenu">>),
     Build(<<"menu", "submenu", "dish">>), Build(<<"menu", "menu", "submenu">>)}

CreateOps == {"create_menu", "create_menu_submenu", "add_dish_to_menu_submenu"}

CorrectOps == {"correct_menu", "correct_menu_submenu", "correct_dish_in_menu_submenu"}

DeleteOps == {"delete_menu", "delete_menu_submenu", "remove_dish_from_menu_submenu"}

\* The handlers that run inside `async with session, session.begin()`.
MutatingOps == CreateOps \cup CorrectOps \cup DeleteOps

FindsSubmenu(op) ==
    op \in {"correct_menu_submenu", "delete_menu_submenu", "add_dish_to_menu_submenu",
            "correct_dish_in_menu_submenu", "remove_dish_from_menu_submenu"}

ChecksInclusion(op) ==
    op \in {"correct_menu_submenu", "add_dish_to_menu_submenu",
            "correct_dish_in_menu_submenu", "remove_dish_from_menu_submenu"}

FindsDish(op) == op \in {"correct_dish_in_menu_submenu", "remove_dish_from_menu_submenu"}

\* Row locks.  An INSERT of a child takes FOR KEY SHARE on the parent row (the
\* foreign-key check), an UPDATE of non-key columns FOR NO KEY UPDATE on the
\* row, a DELETE FOR UPDATE on the row and on every row the cascade deletes.
Lock(table, id, mode) == [table |-> table, id |-> id, mode |-> mode]

\* The variant in which the insert of a child locks its parent row
\* exclusively (as after SELECT ... FOR UPDATE of the menu).
ConflictExclusive(held, wanted) == TRUE

Conflict(held, wanted) ==
    \/ held = "update" \/ wanted = "update"
    \/ held = "nokeyupdate" /\ wanted = "nokeyupdate"

Blocked(p, wanted) ==
    \E q \in Procs \ {p} : \E l \in procs[q].locks : \E w \in wanted :
        l.table = w.table /\ l.id = w.id /\ Conflict(l.mode, w.mode)

\* The variant without the foreign-key constraints on the child tables.
ForeignKeyUnchecked(d, table, id) == FALSE

\* The foreign-key check of an INSERT: the parent row is not there.
ForeignKeyViolated(d, table, id) == id \notin Ids(d[table])

\* The identity map of a session: a find of a row the session has loaded
\* gives the object loaded then, with the fields it had.
SessionFindSubmenu(d, pr, s, sess) ==
    LET known == {o \in pr.menu[1].submenus : o.id = s}
    IN  IF s \notin Ids(d.submenus) THEN << >>
        ELSE IF known # {} THEN <<CHOOSE o \in known : TRUE>>
        ELSE <<LoadSubmenu(d, s, sess)>>

SessionFindDish(d, pr, x, sess) ==
    LET known == {o \in (UNION {sm.dishes : sm \in pr.menu[1].submenus}) \cup pr.submenu[1].dishes : o.id = x}
    IN  IF x \notin Ids(d.dishes) THEN << >>
        ELSE IF known # {} THEN <<CHOOSE o \in known : TRUE>>
        ELSE <<LoadDish(d, x, sess)>>

\* The uncommitted write of a transaction, applied to the store at COMMIT.
InsertOf(table, id, row) == [kind |-> "insert", table |-> table, id |-> id, row |-> row]

UpdateOf(table, id, row) == [kind |-> "update", table |-> table, id |-> id, row |-> row]

DeleteOf(menus, submenus, dishes) ==
    [kind |-> "delete", menus |-> menus, submenus |-> submenus, dishes |-> dishes]

Apply(d, w) ==
    CASE w.kind = "none" -> d
      [] w.kind = "insert" -> [d EXCEPT ![w.table] = Put(@, w.id, w.row)]
      [] w.kind = "update" -> [d EXCEPT ![w.table] = Put(@, w.id, w.row)]
      [] w.kind = "delete" ->
            [d EXCEPT !.menus = Restrict(@, Ids(@) \ w.menus),
                      !.submenus = Restrict(@, Ids(@) \ w.submenus),
                      !.dishes = Restrict(@, Ids(@) \ w.dishes)]

RECURSIVE ApplyAll(_, _)
ApplyAll(d, ps) ==
    IF ps = {} THEN d
    ELSE LET q == CHOOSE r \in ps : TRUE IN ApplyAll(Apply(d, procs[q].write), ps \ {q})

\* The variant at READ UNCOMMITTED with dirty reads: a statement also sees
\* what the other transactions have written and not committed.
VisibleWithUncommitted(p) == ApplyAll(db, Procs \ {p})

\* What a SELECT of request p reads at READ COMMITTED: the rows committed
\* when the statement runs.
Visible(p) == db

\* The rows a DELETE removes: the row and, by ON DELETE CASCADE, its
\* dependents as committed when the statement runs.
CascadeOfMenu(d, m) ==
    LET subs == SubmenusOf(d, m)
    IN DeleteOf({m}, subs, {x \in Ids(d.dishes) : d.dishes[x].submenu_id \in subs})

CascadeOfSubmenu(d, s) == DeleteOf({}, {s}, DishesOf(d, s))

CascadeOfDish(d, x) == DeleteOf({}, {}, {x})

\* The variant whose DELETE takes no row locks.
LocksOfDeleteNone(w) == {}

LocksOfDelete(w) ==
    {Lock("menus", m, "update") : m \in w.menus}
        \cup {Lock("submenus", s, "update") : s \in w.submenus}
        \cup {Lock("dishes", x, "update") : x \in w.dishes}

\* The variant whose raising handler leaves its transaction open.
AbortedLeftOpen(pr, error) ==
    [pr EXCEPT !.pc = "done", !.err = error, !.ret = {},
               !.menu = << >>, !.submenu = << >>, !.dish = << >>]

\* The handler raises: the transaction is rolled back, its locks released,
\* the session closed.
Aborted(pr, error) ==
    [pr EXCEPT !.pc = "done", !.err = error, !.ret = {}, !.write = NoWrite, !.locks = {},
               !.menu = << >>, !.submenu = << >>, !.dish = << >>]

\* Requests started so far.
RECURSIVE StartedBy(_)
StartedBy(ps) ==
    IF ps = {} THEN 0
    ELSE LET q == CHOOSE r \in ps : TRUE IN procs[q].n + StartedBy(ps \ {q})

Started == StartedBy(Procs)

\* Creates that have not drawn their identifier yet.
PendingCreates ==
    Cardinality({q \in Procs : procs[q].op \in CreateOps
                                 /\ procs[q].pc \in {"find_menu", "find_submenu", "flush"}})

BodiesOf(op) ==
    IF op \in CorrectOps THEN {NoBody, Body(<<"b">>, <<"y">>, <<2>>)}
    ELSE IF op \in CreateOps THEN {Body(<<"a">>, <<"x">>, <<1>>)}
    ELSE {NoBody}

\* The route is called: a session and a transaction are opened.
begin(p) ==
    /\ procs[p].pc \in {"idle", "done"}
    /\ Started < MaxRequests
    /\ \E op \in MutatingOps :
        \E m \in (IF op = "create_menu" THEN {NoId} ELSE MenuIds) :
        \E s \in (IF FindsSubmenu(op) THEN SubmenuIds ELSE {NoId}) :
        \E x \in (IF FindsDish(op) THEN DishIds ELSE {NoId}) :
        \E c \in BodiesOf(op) :
            /\ op \in CreateOps => Generated + PendingCreates < MaxEntities
            /\ procs' = [procs EXCEPT ![p] =
                    [IdleProc EXCEPT !.pc = IF op = "create_menu" THEN "flush" ELSE "find_menu",
                                     !.n = procs[p].n + 1, !.op = op, !.menu_id = m,
                                     !.submenu_id = s, !.dish_id = x, !.body = c]]
    /\ UNCHANGED <<db, seq, pre, last>>

\* await menu_repository.find(entity_id=menu_id, session=session)
find_menu(p) ==
    LET pr == procs[p]
        menu == FindMenu(Visible(p), pr.menu_id, p)
    IN  /\ pr.pc = "find_menu"
        /\ procs' = [procs EXCEPT ![p] =
                IF menu = << >> THEN Aborted(pr, MenuNotFoundError)
                ELSE [pr EXCEPT !.menu = menu,
                                !.pc = IF FindsSubmenu(pr.op) THEN "find_submenu" ELSE "flush"]]
        /\ UNCHANGED <<db, seq, pre, last>>

\* await submenu_repository.find(entity_id=submenu_id, session=session), then
\* `submenu not in menu.submenus`.
find_submenu(p) ==
    LET pr == procs[p]
        submenu == SessionFindSubmenu(Visible(p), pr, pr.submenu_id, p)
    IN  /\ pr.pc = "find_submenu"
        /\ procs' = [procs EXCEPT ![p] =
                IF submenu = << >> THEN Aborted(pr, SubmenuNotFoundError)
                ELSE IF ChecksInclusion(pr.op) /\ ~Contains(pr.menu[1].submenus, submenu[1])
                     THEN Aborted(pr, SubmenuNotIncludedInMenuError)
                ELSE [pr EXCEPT !.submenu = submenu,
                                !.pc = IF FindsDish(pr.op) THEN "find_dish" ELSE "flush"]]
        /\ UNCHANGED <<db, seq, pre, last>>

\* await dish_repository.find(entity_id=dish_id, session=session)
find_dish(p) ==
    LET pr == procs[p]
        dish == SessionFindDish(Visible(p), pr, pr.dish_id, p)
    IN  /\ pr.pc = "find_dish"
        /\ procs' = [procs EXCEPT ![p] =
                IF dish = << >> THEN Aborted(pr, DishNotFoundError)
                ELSE [pr EXCEPT !.dish = dish, !.pc = "flush"]]
        /\ UNCHANGED <<db, seq, pre, last>>

\* The table and row a handler writes, and the object it loaded for it.
TargetTable(op) ==
    IF op \in {"create_menu", "correct_menu", "delete_menu"} THEN "menus"
    ELSE IF op \in {"create_menu_submenu", "correct_menu_submenu", "delete_menu_submenu"}
         THEN "submenus"
    ELSE "dishes"

TargetId(pr) ==
    CASE TargetTable(pr.op) = "menus" -> pr.menu_id
      [] TargetTable(pr.op) = "submenus" -> pr.submenu_id
      [] TargetTable(pr.op) = "dishes" -> pr.dish_id

Loaded(pr) ==
    CASE TargetTable(pr.op) = "menus" -> pr.menu[1]
      [] TargetTable(pr.op) = "submenus" -> pr.submenu[1]
      [] TargetTable(pr.op) = "dishes" -> pr.dish[1]

\* The mapping of a row as the session reads it back (session.refresh).
Refreshed(d, table, id, sess) ==
    CASE table = "menus" -> MenuMapping(LoadMenu(d, id, sess))
      [] table = "submenus" -> SubmenuMapping(LoadSubmenu(d, id, sess))
      [] table = "dishes" -> DishMapping(LoadDish(d, id, sess))

LoadedMapping(pr) ==
    CASE TargetTable(pr.op) = "menus" -> MenuMapping(pr.menu[1])
      [] TargetTable(pr.op) = "submenus" -> SubmenuMapping(pr.submenu[1])
      [] TargetTable(pr.op) = "dishes" -> DishMapping(pr.dish[1])

\* The row a create inserts, with its foreign key.
NewRow(pr) ==
    CASE pr.op = "create_menu" ->
            [title |-> pr.body.title[1], description |-> pr.body.description[1]]
      [] pr.op = "create_menu_submenu" ->
            [title |-> pr.body.title[1], description |-> pr.body.description[1],
             menu_id |-> pr.menu_id]
      [] pr.op = "add_dish_to_menu_submenu" ->
            [title |-> pr.body.title[1], description |-> pr.body.description[1],
             price |-> pr.body.price[1], submenu_id |-> pr.submenu_id]

ParentTable(op) == IF op = "create_menu_submenu" THEN "menus" ELSE "submenus"

ParentId(pr) == IF pr.op = "create_menu_submenu" THEN pr.menu_id ELSE pr.submenu_id

\* `entity.field = corrected or entity.field` on the loaded object: the flush
\* writes the attributes whose value changed, and only those.
Dirty(loaded, body) ==
    \/ StrOr(body.title, loaded.title) # loaded.title
    \/ StrOr(body.description, loaded.description) # loaded.description
    \/ "price" \in DOMAIN loaded /\ DecimalOr(body.price, loaded.price) # loaded.price

CorrectedRow(row, loaded, body) ==
    LET title == StrOr(body.title, loaded.title)
        description == StrOr(body.description, loaded.description)
        text == [row EXCEPT !.title = IF title # loaded.title THEN title ELSE @,
                            !.description = IF description # loaded.description
                                            THEN description ELSE @]
    IN  IF "price" \in DOMAIN loaded /\ DecimalOr(body.price, loaded.price) # loaded.price
        THEN [text EXCEPT !.price = DecimalOr(body.price, loaded.price)]
        ELSE text

\* CRUDRepository.save of a new entity: session.add, flush (INSERT), refresh.
\* The store generates the identifier (gen_random_uuid()): one drawn by a
\* transaction that is rolled back is not drawn again.
flush_insert(p) ==
    LET pr == procs[p]
        table == TargetTable(pr.op)
        id == seq[table] + 1
        parent == Lock(ParentTable(pr.op), ParentId(pr), "keyshare")
        child == pr.op # "create_menu"
        w == InsertOf(table, id, NewRow(pr))
        mapping == IF pr.op = "create_menu_submenu"
                   THEN [Refreshed(Apply(db, w), table, id, p)
                            EXCEPT !.description = pr.menu[1].description]
                   ELSE Refreshed(Apply(db, w), table, id, p)
    IN  /\ pr.pc = "flush"
        /\ pr.op \in CreateOps
        /\ ~(child /\ Blocked(p, {parent}))
        /\ seq' = [seq EXCEPT ![table] = id]
        /\ procs' = [procs EXCEPT ![p] =
                IF child /\ ForeignKeyViolated(db, parent.table, parent.id)
                THEN Aborted(pr, IntegrityError)
                ELSE [pr EXCEPT !.pc = "commit", !.write = w, !.ret = {mapping},
                                !.locks = IF child THEN {parent} ELSE {}]]
        /\ UNCHANGED <<db, pre, last>>

\* CRUDRepository.save of a loaded entity: flush (UPDATE of the changed
\* columns WHERE id = ..., which must match one row), refresh.
flush_update(p) ==
    LET pr == procs[p]
        table == TargetTable(pr.op)
        id == TargetId(pr)
        dirty == Dirty(Loaded(pr), pr.body)
        row == Lock(table, id, "nokeyupdate")
        w == IF dirty THEN UpdateOf(table, id, CorrectedRow(db[table][id], Loaded(pr), pr.body))
             ELSE NoWrite
    IN  /\ pr.pc = "flush"
        /\ pr.op \in CorrectOps
        /\ ~(dirty /\ Blocked(p, {row}))
        /\ procs' = [procs EXCEPT ![p] =
                IF id \notin Ids(db[table]) THEN Aborted(pr, StaleDataError)
                ELSE [pr EXCEPT !.pc = "commit", !.write = w,
                                !.ret = {Refreshed(Apply(db, w), table, id, p)},
                                !.locks = IF dirty THEN {row} ELSE {}]]
        /\ UNCHANGED <<db, seq, pre, last>>

\* CRUDRepository.delete: session.delete, flush (DELETE WHERE id = ...; a row
\* that is gone by then is a warning, not an error).
flush_delete(p) ==
    LET pr == procs[p]
        table == TargetTable(pr.op)
        id == TargetId(pr)
        w == IF id \notin Ids(db[table]) THEN NoWrite
             ELSE CASE table = "menus" -> CascadeOfMenu(db, id)
                    [] table = "submenus" -> CascadeOfSubmenu(db, id)
                    [] table = "dishes" -> CascadeOfDish(db, id)
        wanted == IF w = NoWrite THEN {} ELSE LocksOfDelete(w)
    IN  /\ pr.pc = "flush"
        /\ pr.op \in DeleteOps
        /\ ~Blocked(p, wanted)
        /\ procs' = [procs EXCEPT ![p] =
                [pr EXCEPT !.pc = "commit", !.write = w, !.ret = {LoadedMapping(pr)},
                           !.locks = wanted]]
        /\ UNCHANGED <<db, seq, pre, last>>

\* The block of `async with session, session.begin()` returns: COMMIT.
commit(p) ==
    LET pr == procs[p]
    IN  /\ pr.pc = "commit"
        /\ db' = Apply(db, pr.write)
        /\ procs' = [procs EXCEPT ![p] =
                [pr EXCEPT !.pc = "done", !.write = NoWrite, !.locks = {},
                           !.menu = << >>, !.submenu = << >>, !.dish = << >>]]
        /\ UNCHANGED <<seq, pre, last>>

\* A storage failure before the commit: the exception leaves the block and
\* the transaction is rolled back.
rollback(p) ==
    LET pr == procs[p]
    IN  /\ pr.pc = "commit"
        /\ procs' = [procs EXCEPT ![p] = Aborted(pr, StorageError)]
        /\ UNCHANGED <<db, seq, pre, last>>

InitConc ==
    /\ \E seed \in Seeds : db = seed.db /\ seq = seed.seq /\ pre = seed.db
    /\ last = NoCall
    /\ procs = [p \in Procs |-> IdleProc]

NextConc ==
    \E p \in Procs :
        \/ begin(p)
        \/ find_menu(p)
        \/ find_submenu(p)
        \/ find_dish(p)
        \/ flush_insert(p)
        \/ flush_update(p)
        \/ flush_delete(p)
        \/ commit(p)
        \/ rollback(p)

SpecConc == InitConc /\ [][NextConc]_vars

\* The next await of the request in slot p. The event loop resumes every
\* coroutine whose await has completed, and the store answers every statement
\* that is not waiting for a lock.
Proceed(p) ==
    \/ find_menu(p)
    \/ find_submenu(p)
    \/ find_dish(p)
    \/ flush_insert(p)
    \/ flush_update(p)
    \/ flush_delete(p)
    \/ commit(p)
    \/ rollback(p)

\* The concurrent requests under that scheduling: a request that can take its
\* next step takes it. Nothing obliges a client to send a request.
SpecConcFair == InitConc /\ [][NextConc]_vars /\ \A p \in Procs : WF_vars(Proceed(p))

\* ======================================================== the properties
SubmenuOps ==
    {"get_menu_submenu", "correct_menu_submenu", "delete_menu_submenu"}

DishListOps == {"get_dishes_in_menu_submenu"}

DishOps ==
    {"get_dish_in_menu_submenu", "add_dish_to_menu_submenu",
     "correct_dish_in_menu_submenu", "remove_dish_from_menu_submenu"}

\* Every operation that takes a menu identifier.
MenuScopedOps ==
    {"get_menu", "correct_menu", "delete_menu", "get_menu_submenus", "create_menu_submenu"}
        \cup SubmenuOps \cup DishListOps \cup DishOps

Failed(error) == last.err = error /\ last.kind = "raise" /\ last.ret = {}

MenuExisted == last.menu_id \in Ids(pre.menus)

SubmenuExisted == last.submenu_id \in Ids(pre.submenus)

DishExisted == last.dish_id \in Ids(pre.dishes)

\* C1: an operation that takes a menu identifier, called with the identifier
\* of no stored Menu, fails with MenuNotFound whatever the Submenu and Dish
\* identifiers are; it reports no other error and returns no result.
C1_MenuNotFoundFirst ==
    (last.op \in MenuScopedOps /\ ~MenuExisted) => Failed(MenuNotFoundError)

\* A dish operation under a missing Menu, with a stored Submenu and a stored
\* Dish, has failed with MenuNotFound.
C1_Witness ==
    /\ last.op \in DishOps
    /\ ~MenuExisted /\ SubmenuExisted /\ DishExisted
    /\ Failed(MenuNotFoundError)

\* C2: with a stored Menu and the identifier of no stored Submenu, get, add,
\* correct and remove Dish fail with SubmenuNotFound, not DishNotFound, also
\* when the Dish identifier is of no stored Dish.
C2_SubmenuNotFoundBeforeDish ==
    (last.op \in DishOps /\ MenuExisted /\ ~SubmenuExisted) => Failed(SubmenuNotFoundError)

\* Remove Dish under a stored Menu, with neither the Submenu nor the Dish
\* stored, has failed with SubmenuNotFound.
C2_Witness ==
    /\ last.op = "remove_dish_from_menu_submenu"
    /\ MenuExisted /\ ~SubmenuExisted /\ ~DishExisted
    /\ Failed(SubmenuNotFoundError)

\* C3: a Submenu of Menu A addressed under another stored Menu B: get,
\* correct and delete Submenu, list Dishes, get, add, correct and remove Dish
\* all fail with SubmenuNotIncludedInMenu and leave the store as it was.
C3_OtherMenuRejected ==
    (/\ last.op \in SubmenuOps \cup DishListOps \cup DishOps
     /\ MenuExisted /\ SubmenuExisted
     /\ pre.submenus[last.submenu_id].menu_id # last.menu_id)
        => (Failed(SubmenuNotIncludedInMenuError) /\ db = pre)

\* C4: get, correct and remove Dish (M, S, D) return, change or delete D only
\* if D is a Dish of S and S a Submenu of M; a stored D of another Submenu is
\* neither returned nor changed nor deleted.
C4_DishOfAddressedSubmenu ==
    LET D == last.dish_id IN
    (/\ last.op \in {"get_dish_in_menu_submenu", "correct_dish_in_menu_submenu",
                     "remove_dish_from_menu_submenu"}
     /\ DishExisted
     /\ pre.dishes[D].submenu_id # last.submenu_id)
        => /\ \A r \in last.ret : r.id # D
           /\ D \in Ids(db.dishes)
           /\ db.dishes[D] = pre.dishes[D]

\* The stored counts the claims speak of.
StoredSubmenusCount(d, m) == Cardinality(SubmenusOf(d, m))

StoredDishesCountOfMenu(d, m) ==
    Cardinality({x \in Ids(d.dishes) : d.dishes[x].submenu_id \in SubmenusOf(d, m)})

StoredDishesCount(d, s) == Cardinality(DishesOf(d, s))

\* C5: get Menu M reports the number of stored Submenus of M and the number
\* of stored Dishes of those Submenus; get Submenu S under its Menu reports
\* the number of stored Dishes of S.
C5_Aggregates ==
    /\ (last.op = "get_menu" /\ MenuExisted)
        => /\ last.kind = "mapping"
           /\ \A r \in last.ret :
                /\ r.submenus_count = StoredSubmenusCount(db, last.menu_id)
                /\ r.dishes_count = StoredDishesCountOfMenu(db, last.menu_id)
    /\ (/\ last.op = "get_menu_submenu" /\ MenuExisted /\ SubmenuExisted
        /\ pre.submenus[last.submenu_id].menu_id = last.menu_id)
        => /\ last.kind = "mapping"
           /\ \A r \in last.ret : r.dishes_count = StoredDishesCount(db, last.submenu_id)

\* After a successful delete Menu M: the Submenus M had and their Dishes.
DeletedSubmenus == SubmenusOf(pre, last.menu_id)

DeletedDishes == {x \in Ids(pre.dishes) : pre.dishes[x].submenu_id \in DeletedSubmenus}

CascadeDone ==
    /\ last.menu_id \notin Ids(db.menus)
    /\ \A s \in DeletedSubmenus : FindSubmenu(db, s, "s1") = << >>
    /\ \A x \in DeletedDishes : FindDish(db, x, "s1") = << >>

\* C6 as stated: after delete Menu M succeeds the Submenus of M and their
\* Dishes are absent from the store, and a following get Submenu (M, S) for
\* a Submenu S that M had fails with SubmenuNotFound.
C6_CascadeThenSubmenuNotFound ==
    (last.op = "delete_menu" /\ last.err = NoError)
        => /\ CascadeDone
           /\ \A s \in DeletedSubmenus :
                GetMenuSubmenu(db, seq, last.menu_id, s).err = SubmenuNotFoundError

\* C6 as amended: after delete Menu M succeeds the Submenus of M and their
\* Dishes are absent from the store, and a following get Submenu (M, S) for
\* a Submenu S that M had fails with MenuNotFound, the Menu being the first
\* missing level.
C6_CascadeThenMenuNotFound ==
    (last.op = "delete_menu" /\ last.err = NoError)
        => /\ CascadeDone
           /\ \A s \in DeletedSubmenus :
                GetMenuSubmenu(db, seq, last.menu_id, s).err = MenuNotFoundError

\* Delete Menu has succeeded on a Menu that had a Submenu with a Dish.
C6_Witness ==
    /\ last.op = "delete_menu" /\ last.err = NoError
    /\ DeletedSubmenus # {} /\ DeletedDishes # {}

ExpectedText(supplied, before) ==
    IF supplied # << >> /\ supplied[1] # "" THEN supplied[1] ELSE before

ExpectedPrice(supplied, before) ==
    IF supplied # << >> /\ supplied[1] # 0 THEN supplied[1] ELSE before

\* The row a successful correct operation addressed, before and after.
CorrectedBefore ==
    CASE last.op = "correct_menu" -> pre.menus[last.menu_id]
      [] last.op = "correct_menu_submenu" -> pre.submenus[last.submenu_id]
      [] last.op = "correct_dish_in_menu_submenu" -> pre.dishes[last.dish_id]

CorrectedAfter ==
    CASE last.op = "correct_menu" -> db.menus[last.menu_id]
      [] last.op = "correct_menu_submenu" -> db.submenus[last.submenu_id]
      [] last.op = "correct_dish_in_menu_submenu" -> db.dishes[last.dish_id]

\* C8: after a successful correct Menu, correct Submenu or correct Dish, each
\* of title, description (and price for a Dish), stored and returned, is the
\* supplied value when that is supplied and not "" / 0, and the value stored
\* before when the supplied one is absent, "" or 0.
C8_CorrectKeepsOnFalsy ==
    (last.op \in CorrectOps /\ last.err = NoError)
        => /\ last.kind = "mapping"
           /\ CorrectedAfter.title = ExpectedText(last.body.title, CorrectedBefore.title)
           /\ CorrectedAfter.description
                = ExpectedText(last.body.description, CorrectedBefore.description)
           /\ last.op = "correct_dish_in_menu_submenu"
                => CorrectedAfter.price = ExpectedPrice(last.body.price, CorrectedBefore.price)
           /\ \A r \in last.ret :
                /\ r.title = CorrectedAfter.title
                /\ r.description = CorrectedAfter.description
                /\ last.op = "correct_dish_in_menu_submenu" => r.price = CorrectedAfter.price

\* Correct Dish with "" / "" / 0 has succeeded on a Dish corrected before: the
\* corrected values are still there.
C8_Witness ==
    /\ last.op = "correct_dish_in_menu_submenu" /\ last.err = NoError
    /\ last.body = Body(<<"">>, <<"">>, <<0>>)
    /\ db.dishes[last.dish_id].title = "b"
    /\ db.dishes[last.dish_id].price = 2

\* C9: a create, correct or delete that fails, with a domain error or with a
\* storage failure after its write was flushed, leaves the committed store
\* as it was before the call.
C9_FailureLeavesStore ==
    (last.op \in MutatingOps /\ last.err # NoError) => db = pre

\* Delete Menu has failed with a storage failure after the delete of a Menu
\* with a Submenu was flushed.
C9_Witness ==
    /\ last.op = "delete_menu" /\ last.err = StorageError
    /\ MenuExisted /\ SubmenusOf(pre, last.menu_id) # {}

\* C10: in every committed state, after any sequence and any interleaving of
\* requests, the menu of every stored submenu is stored and the submenu of
\* every stored dish is stored.
C10_ForeignKeysHold == ForeignKeysHold(db)

\* The case of C10: a create found its parent row, another request deleted
\* that row and committed, and the insert was then refused by the store.
C10_Witness ==
    \E p \in Procs, q \in Procs :
        /\ p # q
        /\ procs[p].op \in {"create_menu_submenu", "add_dish_to_menu_submenu"}
        /\ procs[p].pc = "done" /\ procs[p].err = IntegrityError
        /\ ParentId(procs[p]) \notin Ids(db[ParentTable(procs[p].op)])
        /\ procs[q].op \in {"delete_menu", "delete_menu_submenu"}
        /\ procs[q].pc = "done" /\ procs[q].err = NoError
        /\ db # pre

C12_ListSubmenusOfMenu ==
    (last.op = "get_menu_submenus" /\ last.err = NoError) =>
        {mapping.id : mapping \in last.ret} = SubmenusOf(pre, last.menu_id)

\* ==================================================== the repository alone
\* CRUDRepository called directly, with `session=None` or with the session
\* of a caller that wraps the call in `async with session, session.begin()`.
NoSession == "none"
CallerSession == "tx"
Sessions == {NoSession, CallerSession}

\* _wrap_session: without a session, `async with self.get_session()` opens a
\* session and closes it on exit; close() commits nothing, so what the call
\* flushed is rolled back.  With the caller's session the caller's block
\* commits on exit.
WrapSession(session, committed, flushed) ==
    IF session = NoSession THEN committed ELSE flushed

Entity(table, id, row) == [table |-> table, id |-> id, row |-> row]

\* The entities a caller can hand to save: new ones (no identifier yet), and
\* stored ones found in a session of their own and given another title.
NewEntities ==
    {Entity("menus", NoId, [title |-> "a", description |-> "x"])}
        \cup {Entity("submenus", NoId, [title |-> "a", description |-> "x", menu_id |-> m]) :
                m \in MenuIds}
        \cup {Entity("dishes", NoId, [title |-> "a", description |-> "x", price |-> 1,
                                      submenu_id |-> s]) : s \in SubmenuIds}

StoredEntities(d) ==
    UNION {{Entity(table, id, d[table][id]) : id \in Ids(d[table])} :
            table \in {"menus", "submenus", "dishes"}}

Retitled(entity) == [entity EXCEPT !.row.title = "b"]

\* The foreign key of a row: its table and value, or nothing for a menu.
ParentOf(entity) ==
    CASE entity.table = "menus" -> << >>
      [] entity.table = "submenus" -> <<"menus", entity.row.menu_id>>
      [] entity.table = "dishes" -> <<"submenus", entity.row.submenu_id>>

\* CRUDRepository.save: session.add(entity), flush (INSERT of a new entity,
\* UPDATE of a changed one), refresh, return the entity.
RepositorySave(d, q, entity) ==
    LET table == entity.table
        id == IF entity.id = NoId THEN q[table] + 1 ELSE entity.id
        parent == ParentOf(entity)
        w == [d EXCEPT ![table] = Put(@, id, entity.row)]
        drawn == IF entity.id = NoId THEN [q EXCEPT ![table] = id] ELSE q
    IN  IF parent # << >> /\ ForeignKeyViolated(d, parent[1], parent[2])
        THEN Raise(IntegrityError, d, drawn)
        ELSE Return(Refreshed(w, table, id, "repository"), w, drawn)

\* CRUDRepository.delete: session.delete(entity), flush (DELETE, with the
\* cascade of the store); returns None.
RepositoryDelete(d, q, entity) ==
    LET w == CASE entity.table = "menus" -> DeleteMenuRow(d, entity.id)
               [] entity.table = "submenus" -> DeleteSubmenuRow(d, entity.id)
               [] entity.table = "dishes" -> DeleteDishRow(d, entity.id)
    IN [err |-> NoError, kind |-> "none", ret |-> {}, db |-> w, seq |-> q]

\* CRUDRepository.find in a session of its own.
RepositoryFind(d, q, table, id) ==
    IF id \in Ids(d[table]) THEN Return(Refreshed(d, table, id, "repository"), d, q)
    ELSE [err |-> NoError, kind |-> "none", ret |-> {}, db |-> d, seq |-> q]

\* A repository call on an entity, recorded with the entity's identifier in
\* the field of its table.
RepositoryCall(op, table, id, out) ==
    Call(op, IF table = "menus" THEN id ELSE NoId, IF table = "submenus" THEN id ELSE NoId,
         IF table = "dishes" THEN id ELSE NoId, NoBody, out)

CalledTable ==
    IF last.dish_id # NoId THEN "dishes"
    ELSE IF last.submenu_id # NoId THEN "submenus"
    ELSE "menus"

CalledId ==
    IF last.dish_id # NoId THEN last.dish_id
    ELSE IF last.submenu_id # NoId THEN last.submenu_id
    ELSE last.menu_id

Repository(call, session, out) ==
    /\ Idle
    /\ last' = call
    /\ pre' = db
    /\ db' = IF out.err = NoError THEN WrapSession(session, db, out.db) ELSE db
    /\ seq' = out.seq
    /\ UNCHANGED procs

save ==
    \E session \in Sessions :
    \E entity \in NewEntities \cup {Retitled(e) : e \in StoredEntities(db)} :
        LET out == RepositorySave(db, seq, entity)
            id == IF entity.id = NoId THEN seq[entity.table] + 1 ELSE entity.id
            op == IF session = NoSession THEN "save" ELSE "save_in_transaction"
        IN  /\ entity.id = NoId => Generated < MaxEntities
            /\ Repository(RepositoryCall(op, entity.table, id, out), session, out)

delete ==
    \E session \in Sessions :
    \E entity \in StoredEntities(db) :
        LET out == RepositoryDelete(db, seq, entity)
            op == IF session = NoSession THEN "delete" ELSE "delete_in_transaction"
        IN Repository(RepositoryCall(op, entity.table, entity.id, out), session, out)

find ==
    \E table \in {"menus", "submenus", "dishes"} :
    \E id \in 1..(seq[table] + 1) :
        LET out == RepositoryFind(db, seq, table, id)
        IN Read(RepositoryCall("find", table, id, out), out)

NextRepository ==
    \/ save
    \/ delete
    \/ find
    \/ respond

SpecRepository == Init /\ [][NextRepository]_vars

\* C13: a save or a delete called without a session is committed when it
\* returns: a find in a new session returns the saved row as it was
\* returned, and does not return the deleted row.
C13_UnscopedCommitted ==
    /\ (last.op = "save" /\ last.err = NoError) =>
            RepositoryFind(db, seq, CalledTable, CalledId).ret = last.ret
    /\ (last.op = "delete" /\ last.err = NoError) =>
            RepositoryFind(db, seq, CalledTable, CalledId).ret = {}

\* Two requests, the only ones started, that create a Submenu under the same
\* Menu, stored when they started.
BothCreateSubmenu(p, q) ==
    /\ p # q
    /\ procs[p].n = 1 /\ procs[q].n = 1
    /\ procs[p].op = "create_menu_submenu" /\ procs[q].op = "create_menu_submenu"
    /\ procs[p].menu_id = procs[q].menu_id
    /\ procs[p].menu_id \in Ids(pre.menus)

CreatedId(p) == (CHOOSE mapping \in procs[p].ret : TRUE).id

\* C14: two concurrent create Submenu requests under the same stored Menu X:
\* neither waits for the other, neither fails because of the other, and when
\* both have committed the store holds two Submenus with distinct
\* identifiers and menu_id X, and get Menu X reports two Submenus more.
C14_BothCreatesSucceed ==
    \A p \in Procs, q \in Procs :
        BothCreateSubmenu(p, q) =>
            LET X == procs[p].menu_id
                got == GetMenu(db, seq, X)
            IN  /\ procs[p].pc = "flush" => ~Blocked(p, {Lock("menus", X, "keyshare")})
                /\ procs[p].err \in {NoError, StorageError}
                /\ (/\ procs[p].pc = "done" /\ procs[p].err = NoError
                    /\ procs[q].pc = "done" /\ procs[q].err = NoError) =>
                        /\ CreatedId(p) # CreatedId(q)
                        /\ {CreatedId(p), CreatedId(q)} \subseteq SubmenusOf(db, X)
                        /\ got.err = NoError
                        /\ \A mapping \in got.ret :
                              mapping.submenus_count = Cardinality(SubmenusOf(pre, X)) + 2

\* Both creates have inserted their row and neither has committed yet.
C14_Witness ==
    \E p \in Procs, q \in Procs :
        /\ BothCreateSubmenu(p, q)
        /\ procs[p].pc = "commit" /\ procs[q].pc = "commit"

\* The objects request p holds of a table: what its finds have loaded.
LoadedIds(p, table) ==
    LET pr == procs[p]
        submenus == (UNION {menu.submenus : menu \in {pr.menu[i] : i \in DOMAIN pr.menu}})
                        \cup {pr.submenu[i] : i \in DOMAIN pr.submenu}
        dishes == (UNION {submenu.dishes : submenu \in submenus})
                        \cup {pr.dish[i] : i \in DOMAIN pr.dish}
    IN  CASE table = "menus" -> {pr.menu[i].id : i \in DOMAIN pr.menu}
          [] table = "submenus" -> {submenu.id : submenu \in submenus}
          [] table = "dishes" -> {dish.id : dish \in dishes}

\* Request p sees nothing of the uncommitted write w of another request: an
\* inserted row is not found and is in nothing p has loaded, a corrected row
\* reads as committed, a deleted row is still found.
Unobserved(p, w) ==
    CASE w.kind = "none" -> TRUE
      [] w.kind = "insert" ->
            /\ w.id \notin Ids(Visible(p)[w.table])
            /\ w.id \notin LoadedIds(p, w.table)
      [] w.kind = "update" ->
            /\ w.id \in Ids(Visible(p)[w.table])
            /\ Visible(p)[w.table][w.id] = db[w.table][w.id]
      [] w.kind = "delete" ->
            /\ w.menus \subseteq Ids(Visible(p).menus)
            /\ w.submenus \subseteq Ids(Visible(p).submenus)
            /\ w.dishes \subseteq Ids(Visible(p).dishes)

OK == 200
CREATED == 201
BAD_REQUEST == 400
NOT_FOUND == 404
\* An exception no handler is registered for: the framework's server error.
INTERNAL_SERVER_ERROR == 500

DomainErrors ==
    {MenuNotFoundError, SubmenuNotFoundError, SubmenuNotIncludedInMenuError,
     DishNotFoundError}

\* The variant with the not-found handlers only.
NotFoundHandlers(error) ==
    CASE error = DishNotFoundError -> NOT_FOUND
      [] error = SubmenuNotFoundError -> NOT_FOUND
      [] error = MenuNotFoundError -> NOT_FOUND
      [] OTHER -> INTERNAL_SERVER_ERROR

\* @app.exception_handler(...): the status of the response for an exception
\* that leaves a route.
ExceptionHandlers(error) ==
    CASE error = DishNotFoundError -> NOT_FOUND
      [] error = SubmenuNotFoundError -> NOT_FOUND
      [] error = MenuNotFoundError -> NOT_FOUND
      [] error = SubmenuNotIncludedInMenuError -> BAD_REQUEST
      [] OTHER -> INTERNAL_SERVER_ERROR

\* The status of the response to a call: the route's status_code when the
\* handler returned, the exception handler's when it raised.
StatusCode(call) ==
    IF call.err = NoError
    THEN IF call.op \in CreateOps THEN CREATED ELSE OK
    ELSE ExceptionHandlers(call.err)

\* C16: MenuNotFound, SubmenuNotFound and DishNotFound are answered with 404
\* Not Found and SubmenuNotIncludedInMenu with 400 Bad Request; no domain
\* error is answered with a success or a server-error status.
C16_ErrorStatus ==
    /\ last.err \in {MenuNotFoundError, SubmenuNotFoundError, DishNotFoundError}
            => StatusCode(last) = NOT_FOUND
    /\ last.err = SubmenuNotIncludedInMenuError => StatusCode(last) = BAD_REQUEST
    /\ last.err \in DomainErrors => StatusCode(last) \in 400..499

\* A call has raised SubmenuNotIncludedInMenuError for a Submenu of another
\* Menu and is answered with 400.
C16_Witness ==
    /\ last.err = SubmenuNotIncludedInMenuError
    /\ last.op = "correct_menu_submenu"
    /\ StatusCode(last) = BAD_REQUEST

\* The addressed Submenu was stored and belonged to the addressed Menu.
SubmenuBelonged ==
    /\ MenuExisted /\ SubmenuExisted
    /\ pre.submenus[last.submenu_id].menu_id = last.menu_id

\* The addressed Menu and Submenu were stored, the Submenu under another Menu.
SubmenuOfOtherMenu ==
    /\ MenuExisted /\ SubmenuExisted
    /\ pre.submenus[last.submenu_id].menu_id # last.menu_id

\* C17: list Dishes under Menu M and Submenu S, S stored and belonging to M,
\* returns exactly the stored Dishes whose submenu_id is S, each with its
\* id, title, description and price.
C17_ListDishesOfSubmenu ==
    (last.op = "get_dishes_in_menu_submenu" /\ SubmenuBelonged) =>
        /\ last.err = NoError
        /\ last.ret = {DishMapping(LoadDish(pre, x, "s2")) : x \in DishesOf(pre, last.submenu_id)}

\* C18: for a stored Submenu S of a stored Menu M the inclusion check passes
\* on every path: no operation addressed at (M, S) fails with
\* SubmenuNotIncludedInMenu, whether it looks the two up in one session or
\* in separate repository calls.
C18_InclusionPasses ==
    (last.op \in SubmenuOps \cup DishListOps \cup DishOps /\ SubmenuBelonged) =>
        last.err # SubmenuNotIncludedInMenuError

\* The same for the operations that look the two up in one session.
C18_InclusionPassesInTransaction ==
    (last.op \in MutatingOps /\ last.submenu_id # NoId /\ SubmenuBelonged) =>
        last.err # SubmenuNotIncludedInMenuError

\* C19: get, correct and remove Dish check the inclusion before they look
\* the Dish up: with M and S stored, S under another Menu and no Dish with
\* the identifier, they fail with SubmenuNotIncludedInMenu, not DishNotFound.
C19_InclusionBeforeDish ==
    (/\ last.op \in {"get_dish_in_menu_submenu", "correct_dish_in_menu_submenu",
                     "remove_dish_from_menu_submenu"}
     /\ SubmenuOfOtherMenu /\ ~DishExisted) =>
        Failed(SubmenuNotIncludedInMenuError)

\* correct Dish was called with a Submenu of another Menu and the identifier
\* of no stored Dish.
C19_Witness ==
    /\ last.op = "correct_dish_in_menu_submenu"
    /\ SubmenuOfOtherMenu /\ ~DishExisted
    /\ Failed(SubmenuNotIncludedInMenuError)

\* C20: create Submenu under a stored Menu with title t and description d
\* returns the created Submenu: a new identifier, title t, description d
\* (the Submenu's own) and dishes_count 0, and the Submenu is stored under
\* that identifier with title t and description d.
C20_CreateSubmenuReturnsCreated ==
    (last.op = "create_menu_submenu" /\ last.err = NoError) =>
        /\ Cardinality(last.ret) = 1
        /\ \A mapping \in last.ret :
            /\ mapping.id \notin Ids(pre.submenus)
            /\ mapping.id \in Ids(db.submenus)
            /\ mapping.title = last.body.title[1]
            /\ mapping.description = last.body.description[1]
            /\ mapping.dishes_count = 0
            /\ db.submenus[mapping.id].title = last.body.title[1]
            /\ db.submenus[mapping.id].description = last.body.description[1]
            /\ db.submenus[mapping.id].menu_id = last.menu_id

\* What delete Submenu (M, S) leaves: S and the Dishes of S are gone, every
\* other row is as it was, and get Menu M counts one Submenu and the Dishes
\* of S less.
SubmenuCascadeDone ==
    LET M == last.menu_id
        S == last.submenu_id
        gone == DishesOf(pre, S)
        got == GetMenu(db, seq, M)
    IN  /\ FindSubmenu(db, S, "s1") = << >>
        /\ \A x \in gone : FindDish(db, x, "s1") = << >>
        /\ db.menus = pre.menus
        /\ db.submenus = Restrict(pre.submenus, Ids(pre.submenus) \ {S})
        /\ db.dishes = Restrict(pre.dishes, Ids(pre.dishes) \ gone)
        /\ got.err = NoError
        /\ \A mapping \in got.ret :
            /\ mapping.submenus_count = StoredSubmenusCount(pre, M) - 1
            /\ mapping.dishes_count = StoredDishesCountOfMenu(pre, M) - Cardinality(gone)

\* C21: after delete Submenu (M, S) succeeds, S and every Dish of S are
\* absent from the store, Menu M and the other Submenus and Dishes are
\* unchanged, and get Menu M reports submenus_count lower by 1 and
\* dishes_count lower by the number of Dishes S had.
C21_DeleteSubmenuCascade ==
    (last.op = "delete_menu_submenu" /\ last.err = NoError) => SubmenuCascadeDone

\* The same for a Submenu that belonged to the addressed Menu.
C21_DeleteOwnSubmenuCascade ==
    (last.op = "delete_menu_submenu" /\ last.err = NoError /\ SubmenuBelonged)
        => SubmenuCascadeDone

\* Every validation step of the chain that applies to the operation of a
\* request has passed, on objects of the request's own session: the Menu is
\* found, the Submenu is found and is in the Menu's collection, the Dish is
\* found.
Validated(p) ==
    LET pr == procs[p]
    IN  /\ pr.op # "create_menu" =>
            pr.menu # << >> /\ pr.menu[1].id = pr.menu_id /\ pr.menu[1].sess = p
        /\ FindsSubmenu(pr.op) =>
            /\ pr.submenu # << >> /\ pr.submenu[1].id = pr.submenu_id
            /\ pr.submenu[1].sess = p
            /\ Contains(pr.menu[1].submenus, pr.submenu[1])
        /\ FindsDish(pr.op) =>
            pr.dish # << >> /\ pr.dish[1].id = pr.dish_id /\ pr.dish[1].sess = p

\* The same with the steps the handlers have: delete Submenu does not test
\* the inclusion.
ValidatedAsCoded(p) ==
    LET pr == procs[p]
    IN  /\ pr.op # "create_menu" =>
            pr.menu # << >> /\ pr.menu[1].id = pr.menu_id /\ pr.menu[1].sess = p
        /\ FindsSubmenu(pr.op) =>
            /\ pr.submenu # << >> /\ pr.submenu[1].id = pr.submenu_id
            /\ pr.submenu[1].sess = p
            /\ ChecksInclusion(pr.op) => Contains(pr.menu[1].submenus, pr.submenu[1])
        /\ FindsDish(pr.op) =>
            pr.dish # << >> /\ pr.dish[1].id = pr.dish_id /\ pr.dish[1].sess = p

\* No write before the end of the validation, and none on a path that ends
\* in a domain error: a request that is validating has written nothing and
\* holds no lock, and a domain error is raised from there.
NoWriteBeforeValidation(p) ==
    procs[p].pc \in {"find_menu", "find_submenu", "find_dish", "flush"} =>
        procs[p].write = NoWrite /\ procs[p].locks = {}

DomainErrorWhileValidating(p) ==
    (procs'[p].err \in DomainErrors /\ procs'[p] # procs[p]) =>
        /\ procs[p].pc \in {"find_menu", "find_submenu", "find_dish"}
        /\ procs[p].write = NoWrite
        /\ db' = db

\* C22: in every mutating operation the reads and the write use the one
\* transaction the operation opened, the write (save or delete) is issued
\* only after every validation step that applies to the operation has
\* passed, and no write is issued on a path that ends in a domain error.
C22_WriteAfterValidation ==
    /\ [](\A p \in Procs : /\ procs[p].pc = "commit" => Validated(p)
                           /\ NoWriteBeforeValidation(p))
    /\ [][\A p \in Procs : DomainErrorWhileValidating(p)]_vars

\* The same for the validation steps the handlers have.
C22_WriteAfterCodedValidation ==
    /\ [](\A p \in Procs : /\ procs[p].pc = "commit" => ValidatedAsCoded(p)
                           /\ NoWriteBeforeValidation(p))
    /\ [][\A p \in Procs : DomainErrorWhileValidating(p)]_vars

\* C23: ownership never changes after creation: whatever the call, a
\* Submenu that stays stored keeps its menu_id and a Dish that stays stored
\* keeps its submenu_id; the correct operations change title, description
\* and price only.
C23_OwnershipFixed ==
    /\ \A s \in Ids(pre.submenus) \cap Ids(db.submenus) :
            db.submenus[s].menu_id = pre.submenus[s].menu_id
    /\ \A x \in Ids(pre.dishes) \cap Ids(db.dishes) :
            db.dishes[x].submenu_id = pre.dishes[x].submenu_id
    /\ (last.op = "create_menu_submenu" /\ last.err = NoError) =>
            \A mapping \in last.ret : db.submenus[mapping.id].menu_id = last.menu_id
    /\ (last.op = "add_dish_to_menu_submenu" /\ last.err = NoError) =>
            \A mapping \in last.ret : db.dishes[mapping.id].submenu_id = last.submenu_id

\* correct Dish has changed a Dish addressed through a Submenu that is not
\* its own.
C23_Witness ==
    /\ last.op = "correct_dish_in_menu_submenu" /\ last.err = NoError
    /\ db # pre
    /\ pre.dishes[last.dish_id].submenu_id # last.submenu_id

\* The rows a step adds to a table.
Added(table) == Ids(db'[table]) \ Ids(db[table])

\* C24: every successful create returns a generated identifier that no
\* entity of its type has or has had: the identifiers of a type are unique
\* and the identifier of a deleted entity is not given again.
C24_FreshIdentifiers ==
    /\ [](\A table \in {"menus", "submenus", "dishes"} : Ids(db[table]) \subseteq 1..seq[table])
    /\ [][\A table \in {"menus", "submenus", "dishes"} :
            /\ seq'[table] >= seq[table]
            /\ \A id \in Added(table) : id > seq[table]
            /\ (last'.op \in CreateOps /\ last'.err = NoError /\ TargetTable(last'.op) = table) =>
                    \E mapping \in last'.ret : Added(table) = {mapping.id}]_vars

\* create Menu has succeeded after a Menu was deleted.
C24_Witness ==
    /\ last.op = "create_menu" /\ last.err = NoError
    /\ Cardinality(Ids(pre.menus)) < seq.menus - 1

\* ------------------------------------------------------------------ C25
\* The mapping of the entity a call addresses, as stored in d.
StoredMapping(d, call) ==
    CASE TargetTable(call.op) = "menus" -> MenuMapping(LoadMenu(d, call.menu_id, "tx"))
      [] TargetTable(call.op) = "submenus" ->
            SubmenuMapping(LoadSubmenu(d, call.submenu_id, "tx"))
      [] TargetTable(call.op) = "dishes" -> DishMapping(LoadDish(d, call.dish_id, "tx"))

\* The get of the entity a call addresses, under the ancestors of that call.
GetAgain(d, q, call) ==
    CASE TargetTable(call.op) = "menus" -> GetMenu(d, q, call.menu_id)
      [] TargetTable(call.op) = "submenus" ->
            GetMenuSubmenu(d, q, call.menu_id, call.submenu_id)
      [] TargetTable(call.op) = "dishes" ->
            GetDishInMenuSubmenu(d, q, call.menu_id, call.submenu_id, call.dish_id)

\* The not-found error of the first level of the chain of a call that d lacks.
FirstMissing(d, call) ==
    IF call.menu_id \notin Ids(d.menus) THEN MenuNotFoundError
    ELSE IF TargetTable(call.op) = "menus" THEN NoError
    ELSE IF call.submenu_id \notin Ids(d.submenus) THEN SubmenuNotFoundError
    ELSE IF TargetTable(call.op) = "submenus" THEN NoError
    ELSE IF call.dish_id \notin Ids(d.dishes) THEN DishNotFoundError
    ELSE NoError

Deleted == last.op \in DeleteOps /\ last.err = NoError

\* C25: a successful delete Menu, delete Submenu or remove Dish returns the
\* field values (and counts) the entity had immediately before the deletion,
\* and a get of the same identifier under the same ancestors afterwards fails
\* with the not-found error of the first missing level of the chain.
C25_DeleteThenGetNotFound ==
    Deleted =>
        /\ last.ret = {StoredMapping(pre, last)}
        /\ GetAgain(db, seq, last).err = FirstMissing(db, last)
        /\ FirstMissing(db, last) # NoError

\* The part of C25 that the handlers provide: the returned values are the
\* ones before the deletion, a deleted Menu or Submenu is not found afterwards,
\* and a get of a removed Dish fails.
C25_DeleteReturnsDeleted ==
    Deleted =>
        /\ last.ret = {StoredMapping(pre, last)}
        /\ TargetId(last) \notin Ids(db[TargetTable(last.op)])
        /\ TargetTable(last.op) # "dishes" =>
                GetAgain(db, seq, last).err = FirstMissing(db, last)
        /\ GetAgain(db, seq, last).err # NoError

\* ------------------------------------------------------------------ C26
Corrected == last.op \in CorrectOps /\ last.err = NoError

Tables == {"menus", "submenus", "dishes"}

\* C26: a successful correct Menu, correct Submenu or correct Dish changes
\* only the addressed entity: it keeps its id, every other Menu, Submenu and
\* Dish keeps all its field values, and the stored entities, hence every
\* dishes_count and submenus_count, are the same before and after.
C26_CorrectChangesOnlyAddressed ==
    Corrected =>
        /\ \A table \in Tables :
                /\ Ids(db[table]) = Ids(pre[table])
                /\ \A id \in Ids(db[table]) :
                        (table # TargetTable(last.op) \/ id # TargetId(last)) =>
                                db[table][id] = pre[table][id]
        /\ \A mapping \in last.ret : mapping.id = TargetId(last)
        /\ \A m \in Ids(db.menus) :
                LET before == MenuMapping(LoadMenu(pre, m, "tx"))
                    after == MenuMapping(LoadMenu(db, m, "tx"))
                IN  /\ after.dishes_count = before.dishes_count
                    /\ after.submenus_count = before.submenus_count
        /\ \A s \in Ids(db.submenus) :
                SubmenuMapping(LoadSubmenu(db, s, "tx")).dishes_count
                    = SubmenuMapping(LoadSubmenu(pre, s, "tx")).dishes_count

\* A correct call has changed its entity while another entity of the same
\* kind is stored.
C26_Witness ==
    /\ Corrected
    /\ db # pre
    /\ Cardinality(Ids(db[TargetTable(last.op)])) > 1

\* ------------------------------------------------------------------ C27
ReadOps ==
    {"get_menu", "get_menus", "get_menu_submenu", "get_menu_submenus",
     "get_dish_in_menu_submenu", "get_dishes_in_menu_submenu"}

\* C27: get Menu, list Menus, get Submenu, list Submenus, get Dish and list
\* Dishes never change the store, whether they return or raise: the stored
\* entities, all their fields and the identifiers drawn are the same after
\* the call as before it.
C27_ReadsChangeNothing ==
    [][last'.op \in ReadOps => (db' = db /\ seq' = seq)]_vars

\* A read has failed while entities of every kind are stored.
C27_Witness ==
    /\ last.op \in ReadOps
    /\ last.err # NoError
    /\ \A table \in Tables : Ids(db[table]) # {}

\* ------------------------------------------------------------------ C28
Created(op) == last.op = op /\ last.err = NoError

\* get Menu of the Menu just created returns its title and description with
\* both counts 0.
C28_CreateMenuThenGet ==
    Created("create_menu") =>
        \A mapping \in last.ret :
            LET got == GetMenu(db, seq, mapping.id)
            IN  /\ got.err = NoError
                /\ got.ret = {[id |-> mapping.id, title |-> last.body.title[1],
                               description |-> last.body.description[1],
                               dishes_count |-> 0, submenus_count |-> 0]}

\* C28: after add Dish under (M, S) with title t, description d and price p
\* has returned id D, get Dish (M, S, D) with no write in between returns id D,
\* title t, description d and price p; and get Menu after create Menu returns
\* the created title and description with both counts 0.
C28_CreateThenGet ==
    /\ C28_CreateMenuThenGet
    /\ Created("add_dish_to_menu_submenu") =>
            \A mapping \in last.ret :
                LET got == GetDishInMenuSubmenu(db, seq, last.menu_id, last.submenu_id,
                                                mapping.id)
                IN  /\ got.err = NoError
                    /\ got.ret = {[id |-> mapping.id, title |-> last.body.title[1],
                                   description |-> last.body.description[1],
                                   price |-> last.body.price[1]]}

\* What add Dish stores and returns is the Dish that was asked for.
C28_AddDishStoresDish ==
    Created("add_dish_to_menu_submenu") =>
        \A mapping \in last.ret :
            /\ mapping = [id |-> mapping.id, title |-> last.body.title[1],
                          description |-> last.body.description[1],
                          price |-> last.body.price[1]]
            /\ DishMapping(LoadDish(db, mapping.id, "tx")) = mapping
            /\ db.dishes[mapping.id].submenu_id = last.submenu_id

\* ------------------------------------------------------------------ C29
CreatesChild(pr) == pr.op \in {"create_menu_submenu", "add_dish_to_menu_submenu"}

\* The request qr deletes the parent of the child that pr creates: the menu
\* of the path, or the submenu a dish is added to.
DeletesParentOf(qr, pr) ==
    \/ qr.op = "delete_menu" /\ qr.menu_id = pr.menu_id
    \/ /\ qr.op = "delete_menu_submenu"
       /\ pr.op = "add_dish_to_menu_submenu"
       /\ qr.submenu_id = pr.submenu_id

ParentColumn(table) == IF table = "submenus" THEN "menu_id" ELSE "submenu_id"

\* C29: a create Submenu or add Dish request that runs concurrently with a
\* delete of its parent never leaves an orphan, in any interleaving: in every
\* committed state the created child is stored only if its parent is, no
\* stored row of the child's table lacks its parent, and when both requests
\* have succeeded the child is gone with its parent.
C29_NoOrphanOfConcurrentCreate ==
    \A p \in Procs, q \in Procs :
        (p # q /\ CreatesChild(procs[p]) /\ DeletesParentOf(procs[q], procs[p])) =>
            LET pr == procs[p]
                qr == procs[q]
                table == TargetTable(pr.op)
                parents == Ids(db[ParentTable(pr.op)])
            IN  /\ \A mapping \in pr.ret :
                        mapping.id \in Ids(db[table]) => ParentId(pr) \in parents
                /\ \A c \in Ids(db[table]) : db[table][c][ParentColumn(table)] \in parents
                /\ (pr.pc = "done" /\ pr.err = NoError /\ qr.pc = "done" /\ qr.err = NoError) =>
                        /\ TargetId(qr) \notin Ids(db[TargetTable(qr.op)])
                        /\ \A mapping \in pr.ret : mapping.id \notin Ids(db[table])

\* The case of C29 in which the child goes with the cascade: delete Menu
\* loaded the Menu while it had no Submenu, create Submenu under that Menu
\* committed, and the delete that committed after it removed the new Submenu.
C29_Witness ==
    \E p \in Procs, q \in Procs :
        /\ p # q
        /\ procs[p].op = "create_menu_submenu" /\ procs[q].op = "delete_menu"
        /\ procs[p].menu_id = procs[q].menu_id
        /\ procs[p].pc = "done" /\ procs[p].err = NoError
        /\ procs[q].pc = "done" /\ procs[q].err = NoError
        /\ \E mapping \in procs[q].ret : mapping.submenus_count = 0
        /\ CreatedId(p) \notin Ids(db.submenus)
        /\ procs[p].menu_id \notin Ids(db.menus)

\* ------------------------------------------------------------------ C30
Running(p) == procs[p].pc \notin {"idle", "done"}

Returned(p) == procs[p].pc = "done"

\* C30: every call of a mutating handler terminates with a result or an
\* error, and the transaction it opened is closed by then: nothing of it is
\* pending and no lock is held once it has returned, its writes are committed
\* when it returns a result, and the store is as it was when it raises a
\* domain error or a storage error.
C30_TerminatesWithTransactionClosed ==
    /\ \A p \in Procs :
            [](Returned(p) => (procs[p].write = NoWrite /\ procs[p].locks = {}))
    /\ [][\A p \in Procs :
            (Running(p) /\ procs'[p].pc = "done") =>
                /\ procs'[p].err = NoError => (db' = Apply(db, procs[p].write)
                                                /\ procs'[p].ret # {})
                /\ procs'[p].err # NoError => (db' = db /\ procs'[p].ret = {})]_vars
    /\ \A p \in Procs : Running(p) ~> Returned(p)

\* One request has returned after its commit changed the store, the other
\* after the rollback of what it had flushed.
C30_Witness ==
    \E p \in Procs, q \in Procs :
        /\ Returned(p) /\ procs[p].err = NoError /\ db # pre
        /\ Returned(q) /\ procs[q].err = StorageError
        /\ procs[p].locks = {} /\ procs[q].locks = {}

============================================================================
